---- MODULE Spec2Model ----
(***************************************************************************)
(* The storybook generation function of ai-storybook-studio, in the three  *)
(* iterations the repository keeps of it:                                  *)
(*   "generate-ai"  src/netlify/functions/generate-ai.js  (askForStory,    *)
(*                  placeholder images, no asset calls)                    *)
(*   "sequential"   src/unnamed/part_002 lines 1-179      (page loop with  *)
(*                  guarded illustration and narration sub-steps)          *)
(*   "parallel"     src/unnamed/part_002 lines 181-410    (Promise.all     *)
(*                  over per-page tasks, unguarded sub-steps)              *)
(* Texts (request bodies, model replies, response bodies) are strings and  *)
(* are handled character by character, as the JavaScript does.             *)
(***************************************************************************)
EXTENDS Integers, Sequences, FiniteSets, TLC

(***************************************************************************)
(* The state: one invocation of the handler.                               *)
(***************************************************************************)
VARIABLES
    version,        \* which iteration of the function is deployed
    apiKeySet,      \* whether process.env.GEMINI_API_KEY is set
    httpMethod,     \* event.httpMethod
    requestBody,    \* event.body
    pc,             \* "start", "text" (awaiting the story), "assets", "done" (returned)
    returned,       \* what the handler returned, NoResponse before
    accepted,       \* the request passed validation
    sentPrompt,     \* the idea put to the text-generation collaborator
    sentPageCount,  \* the page count put to the text-generation collaborator
    calls,          \* collaborator calls issued so far, by collaborator
    textOutcome,    \* "none", "threw" or "replied"
    textError,      \* the message of the error the text-generation call threw
    modelReply,     \* the text the text-generation collaborator replied
    storyParsed,    \* the reply was normalized to a story
    parsedStory,    \* the story the reply was normalized to
    tasks,          \* the page tasks, one per page of parsedStory
    fulfilled,      \* the pages whose task was fulfilled, in the order it happened
    sample,         \* a reply taken apart: the text before a JSON object, the object,
                    \* the text after
    normalized      \* what the Normalizer made of the sample: of all of it, and of
                    \* the object alone

(***************************************************************************)
(* JavaScript string primitives.  A string literal of this language cannot *)
(* hold the backtick character, so the texts of the model write it as ~,   *)
(* which no text uses for anything else.                                   *)
(***************************************************************************)
BACKTICK == "~"

\* the code-fence marker, three backticks
FENCE == BACKTICK \o BACKTICK \o BACKTICK

CharAt(s, i) == SubSeq(s, i, i)

IsDigit(c) == c \in {"0", "1", "2", "3", "4", "5", "6", "7", "8", "9"}

StartsWith(s, p) == Len(s) >= Len(p) /\ SubSeq(s, 1, Len(p)) = p

EndsWith(s, p) == Len(s) >= Len(p) /\ SubSeq(s, Len(s) - Len(p) + 1, Len(s)) = p

\* s.slice(0, n)
SliceTo(s, n) == IF Len(s) <= n THEN s ELSE SubSeq(s, 1, n)

\* s.substring(from) with a 0-based index, as in JavaScript
SubstringFrom(s, from) == SubSeq(s, from + 1, Len(s))

\* the index of the first character from index i on that is in chars, Len(s) + 1
\* when there is none
FirstOf(s, i, chars) ==
    CHOOSE j \in i..(Len(s) + 1) :
        /\ j = Len(s) + 1 \/ CharAt(s, j) \in chars
        /\ \A k \in i..(j - 1) : CharAt(s, k) \notin chars

\* the index of the first character from index i on that is not in chars
FirstNotOf(s, i, chars) ==
    CHOOSE j \in i..(Len(s) + 1) :
        /\ j = Len(s) + 1 \/ CharAt(s, j) \notin chars
        /\ \A k \in i..(j - 1) : CharAt(s, k) \in chars

\* the index of the last character that is not in chars, 0 when there is none
LastNotOf(s, chars) ==
    CHOOSE j \in 0..Len(s) :
        /\ j = 0 \/ CharAt(s, j) \notin chars
        /\ \A k \in (j + 1)..Len(s) : CharAt(s, k) \in chars

Spaces == {" ", "\n", "\t"}

TrimStart(s) == SubSeq(s, FirstNotOf(s, 1, Spaces), Len(s))

TrimEnd(s) == SubSeq(s, 1, LastNotOf(s, Spaces))

\* String.prototype.trim
Trim(s) == TrimEnd(TrimStart(s))

\* s.indexOf(p): 0-based index of the first occurrence, -1 when there is none
IndexOf(s, p) ==
    LET hits == {i \in 1..(Len(s) - Len(p) + 1) : SubSeq(s, i, i + Len(p) - 1) = p}
    IN  IF hits = {} THEN -1 ELSE (CHOOSE i \in hits : \A j \in hits : i <= j) - 1

\* s.lastIndexOf(p)
LastIndexOf(s, p) ==
    LET hits == {i \in 1..(Len(s) - Len(p) + 1) : SubSeq(s, i, i + Len(p) - 1) = p}
    IN  IF hits = {} THEN -1 ELSE (CHOOSE i \in hits : \A j \in hits : i >= j) - 1

(***************************************************************************)
(* JavaScript values, tagged by type.                                      *)
(***************************************************************************)
JUndef == [t |-> "undef"]
JNull == [t |-> "null"]
JNaN == [t |-> "nan"]
JBool(b) == [t |-> "bool", b |-> b]
JNum(n) == [t |-> "num", n |-> n]
JStr(s) == [t |-> "str", s |-> s]
JArr(a) == [t |-> "arr", a |-> a]
\* an object is its members in insertion order, each [k |-> key, v |-> value]
JObj(m) == [t |-> "obj", m |-> m]
Member(k, v) == [k |-> k, v |-> v]

\* ToBoolean
Truthy(v) ==
    CASE v.t = "undef" -> FALSE
      [] v.t = "null" -> FALSE
      [] v.t = "nan" -> FALSE
      [] v.t = "bool" -> v.b
      [] v.t = "num" -> v.n # 0
      [] v.t = "str" -> Len(v.s) > 0
      [] OTHER -> TRUE

\* v[key]; the caller has checked that v is neither null nor undefined
Get(v, key) ==
    IF v.t # "obj" THEN JUndef
    ELSE LET hits == {i \in 1..Len(v.m) : v.m[i].k = key}
         IN  IF hits = {} THEN JUndef
             ELSE v.m[CHOOSE i \in hits : \A j \in hits : i >= j].v

\* a || b
Or(a, b) == IF Truthy(a) THEN a ELSE b

Digit(n) == CharAt("0123456789", n + 1)

RECURSIVE NumToString(_)
NumToString(n) ==
    IF n < 0 THEN "-" \o NumToString(0 - n)
    ELSE IF n < 10 THEN Digit(n)
    ELSE NumToString(n \div 10) \o Digit(n % 10)

DigitValue(c) == IndexOf("0123456789", c)

RECURSIVE DigitsValue(_, _)
DigitsValue(s, acc) ==
    IF Len(s) > 0 /\ IsDigit(CharAt(s, 1))
    THEN DigitsValue(SubSeq(s, 2, Len(s)), acc * 10 + DigitValue(CharAt(s, 1)))
    ELSE acc

\* String(v), as a template literal renders it
JsString(v) ==
    CASE v.t = "str" -> v.s
      [] v.t = "num" -> NumToString(v.n)
      [] v.t = "nan" -> "NaN"
      [] v.t = "null" -> "null"
      [] v.t = "undef" -> "undefined"
      [] v.t = "bool" -> IF v.b THEN "true" ELSE "false"
      [] v.t = "arr" -> ""
      [] OTHER -> "[object Object]"

\* parseInt(v, 10): leading whitespace skipped, then the leading digits
ParseInt(v) ==
    LET s == TrimStart(JsString(v))
    IN  IF Len(s) > 0 /\ IsDigit(CharAt(s, 1)) THEN JNum(DigitsValue(s, 0)) ELSE JNaN

(***************************************************************************)
(* JSON.parse and JSON.stringify.  Numbers are integers without fraction   *)
(* or exponent and strings know the escapes \" \\ \/ \n \t; every text of  *)
(* the model stays inside that fragment.                                   *)
(***************************************************************************)
ParseFail == [ok |-> FALSE, v |-> JUndef, i |-> 0]

ParseOk(v, i) == [ok |-> TRUE, v |-> v, i |-> i]

SkipWs(s, i) == IF i > Len(s) THEN i ELSE FirstNotOf(s, i, {" ", "\n", "\t", "\r"})

Unescape(c) ==
    CASE c = "n" -> "\n"
      [] c = "t" -> "\t"
      [] OTHER -> c

\* the characters of a string literal from index i on, up to its closing quote
RECURSIVE ScanString(_, _, _)
ScanString(s, i, acc) ==
    IF i > Len(s) THEN ParseFail
    ELSE LET j == FirstOf(s, i, {"\"", "\\", "\n", "\t", "\r"})
             plain == acc \o SubSeq(s, i, j - 1)
         IN  IF j > Len(s) THEN ParseFail
             ELSE IF CharAt(s, j) = "\"" THEN ParseOk(JStr(plain), j + 1)
             ELSE IF CharAt(s, j) = "\\"
                  THEN IF j + 1 <= Len(s) /\ CharAt(s, j + 1) \in {"\"", "\\", "/", "n", "t"}
                       THEN ScanString(s, j + 2, plain \o Unescape(CharAt(s, j + 1)))
                       ELSE ParseFail
             ELSE ParseFail

DigitsEnd(s, i) ==
    IF i > Len(s) THEN i
    ELSE FirstNotOf(s, i, {"0", "1", "2", "3", "4", "5", "6", "7", "8", "9"})

\* an integer literal at index i: -? (0 | [1-9][0-9]*)
ScanNumber(s, i) ==
    LET neg == CharAt(s, i) = "-"
        from == IF neg THEN i + 1 ELSE i
        to == DigitsEnd(s, from)
        n == DigitsValue(SubSeq(s, from, to - 1), 0)
    IN  IF to = from THEN ParseFail
        ELSE IF to - from > 1 /\ CharAt(s, from) = "0" THEN ParseFail
        ELSE ParseOk(JNum(IF neg THEN 0 - n ELSE n), to)

HasAt(s, i, p) == i + Len(p) - 1 <= Len(s) /\ SubSeq(s, i, i + Len(p) - 1) = p

RECURSIVE ParseValue(_, _)
RECURSIVE ElementsFrom(_, _, _)
RECURSIVE MembersFrom(_, _, _)

\* the value at index i and the index of what follows it, whitespace skipped
ParseElement(s, i) ==
    LET r == ParseValue(s, i)
    IN  IF r.ok THEN [ok |-> TRUE, v |-> r.v, i |-> SkipWs(s, r.i)] ELSE ParseFail

\* the value of the member whose key k was read, after its colon
ParseMemberValue(s, k, c) ==
    LET r == ParseValue(s, SkipWs(s, c + 1))
    IN  IF ~k.ok \/ ~HasAt(s, c, ":") \/ ~r.ok THEN ParseFail
        ELSE [ok |-> TRUE, k |-> k.v.s, v |-> r.v, i |-> SkipWs(s, r.i)]

\* the member "key": value at index i and the index of what follows it
ParseMember(s, i) ==
    LET k == ScanString(s, i + 1, "")
    IN  IF ~HasAt(s, i, "\"") \/ ~k.ok THEN ParseFail
        ELSE ParseMemberValue(s, k, SkipWs(s, k.i))

\* the value that starts at index i (whitespace before it already skipped)
ParseValue(s, i) ==
    CASE HasAt(s, i, "{") ->
            IF HasAt(s, SkipWs(s, i + 1), "}") THEN ParseOk(JObj(<<>>), SkipWs(s, i + 1) + 1)
            ELSE MembersFrom(s, ParseMember(s, SkipWs(s, i + 1)), <<>>)
      [] HasAt(s, i, "[") ->
            IF HasAt(s, SkipWs(s, i + 1), "]") THEN ParseOk(JArr(<<>>), SkipWs(s, i + 1) + 1)
            ELSE ElementsFrom(s, ParseElement(s, SkipWs(s, i + 1)), <<>>)
      [] HasAt(s, i, "\"") -> ScanString(s, i + 1, "")
      [] HasAt(s, i, "-") \/ (i <= Len(s) /\ IsDigit(CharAt(s, i))) -> ScanNumber(s, i)
      [] HasAt(s, i, "null") -> ParseOk(JNull, i + 4)
      [] HasAt(s, i, "true") -> ParseOk(JBool(TRUE), i + 4)
      [] HasAt(s, i, "false") -> ParseOk(JBool(FALSE), i + 5)
      [] OTHER -> ParseFail

\* the array whose elements acc were read, e being the element read last
ElementsFrom(s, read, acc) ==
    LET e == read
    IN  CASE ~e.ok -> ParseFail
          [] HasAt(s, e.i, ",") ->
                ElementsFrom(s, ParseElement(s, SkipWs(s, e.i + 1)), Append(acc, e.v))
          [] HasAt(s, e.i, "]") -> ParseOk(JArr(Append(acc, e.v)), e.i + 1)
          [] OTHER -> ParseFail

\* the object whose members acc were read, m being the member read last
MembersFrom(s, read, acc) ==
    LET m == read
    IN  CASE ~m.ok -> ParseFail
          [] HasAt(s, m.i, ",") ->
                MembersFrom(s, ParseMember(s, SkipWs(s, m.i + 1)),
                            Append(acc, Member(m.k, m.v)))
          [] HasAt(s, m.i, "}") -> ParseOk(JObj(Append(acc, Member(m.k, m.v))), m.i + 1)
          [] OTHER -> ParseFail

\* JSON.parse(s): [ok |-> TRUE, v |-> value], or ok = FALSE for a SyntaxError
JSONparse(s) ==
    LET r == ParseValue(s, SkipWs(s, 1))
    IN  IF r.ok /\ SkipWs(s, r.i) = Len(s) + 1
        THEN [ok |-> TRUE, v |-> r.v]
        ELSE [ok |-> FALSE, v |-> JUndef]

Escaped(c) ==
    CASE c = "\"" -> "\\\""
      [] c = "\\" -> "\\\\"
      [] c = "\n" -> "\\n"
      [] c = "\t" -> "\\t"
      [] OTHER -> c

\* the characters of s as a string literal writes them
RECURSIVE Escape(_)
Escape(s) ==
    LET j == FirstOf(s, 1, {"\"", "\\", "\n", "\t"})
    IN  IF j > Len(s) THEN s
        ELSE SubSeq(s, 1, j - 1) \o Escaped(CharAt(s, j)) \o Escape(SubSeq(s, j + 1, Len(s)))

RECURSIVE JSONstringify(_)
RECURSIVE Joined(_, _, _)

\* the member m as JSON text
StringifyMember(m) == "\"" \o Escape(m.k) \o "\":" \o JSONstringify(m.v)

\* the texts written for items lo..hi, commas between them
Joined(items, lo, hi) ==
    CASE lo > hi -> ""
      [] lo = hi -> items[lo]
      [] OTHER -> Joined(items, lo, (lo + hi) \div 2) \o ","
                  \o Joined(items, (lo + hi) \div 2 + 1, hi)

IsDefined(m) == m.v.t # "undef"

\* array elements; undefined is written as null
StringifyElements(a) == Joined([i \in 1..Len(a) |-> JSONstringify(a[i])], 1, Len(a))

\* object members; a member whose value is undefined is left out
StringifyMembers(m) ==
    Joined([i \in 1..Len(SelectSeq(m, IsDefined)) |->
               StringifyMember(SelectSeq(m, IsDefined)[i])],
           1, Len(SelectSeq(m, IsDefined)))

\* JSON.stringify(v) of a value that is not undefined
JSONstringify(v) ==
    CASE v.t = "str" -> "\"" \o Escape(v.s) \o "\""
      [] v.t = "num" -> NumToString(v.n)
      [] v.t = "bool" -> IF v.b THEN "true" ELSE "false"
      [] v.t = "arr" -> "[" \o StringifyElements(v.a) \o "]"
      [] v.t = "obj" -> "{" \o StringifyMembers(v.m) \o "}"
      [] OTHER -> "null"

(***************************************************************************)
(* Program constants.                                                      *)
(***************************************************************************)
STORY_PAGE_COUNT_DEFAULT == 3

STORY_PAGE_COUNT == 3

\* jsonText.slice(0, 1000), the preview of an unparseable reply
PREVIEW_LENGTH == 1000

\* .slice(0, 60), the text of a placeholder image
PLACEHOLDER_TEXT_LENGTH == 60

(***************************************************************************)
(* The outcome of a function that may throw: ok with a value, or an error  *)
(* with its message.                                                       *)
(***************************************************************************)
Return(v) == [ok |-> TRUE, v |-> v, message |-> ""]

Throw(message) == [ok |-> FALSE, v |-> JUndef, message |-> message]

\* the message of the SyntaxError JSON.parse throws (its wording is the engine's)
SyntaxErrorMessage == "Unexpected token in JSON"

\* the message of the TypeError a property read of null or undefined throws
TypeErrorMessage(v, key) ==
    "Cannot read properties of " \o JsString(v) \o " (reading '" \o key \o "')"

Nullish(v) == v.t \in {"undef", "null"}

(***************************************************************************)
(* Response normalization, generate-ai.js askForStory lines 47-71.         *)
(***************************************************************************)
\* jsonText.replace(/^```(?:json)?\n?/, "") of a text that starts with ```
StripLeadingFence(jsonText) ==
    LET a == SubstringFrom(jsonText, 3)
        b == IF StartsWith(a, "json") THEN SubstringFrom(a, 4) ELSE a
    IN  IF StartsWith(b, "\n") THEN SubstringFrom(b, 1) ELSE b

\* jsonText.replace(/```$/, "").trim() of a text that ends with ```
StripTrailingFence(jsonText) == Trim(SubSeq(jsonText, 1, Len(jsonText) - 3))

\* a match that stops at the first } after the first {
MatchObjectShortest(jsonText) ==
    LET first == IndexOf(jsonText, "{")
        close == FirstOf(jsonText, first + 1, {"}"})
    IN  IF first >= 0 /\ close <= Len(jsonText)
        THEN [found |-> TRUE, text |-> SubSeq(jsonText, first + 1, close)]
        ELSE [found |-> FALSE, text |-> ""]

\* jsonText.match(/\{[\s\S]*\}/): the span from the first { to the last }
MatchObject(jsonText) ==
    LET first == IndexOf(jsonText, "{")
        last == LastIndexOf(jsonText, "}")
    IN  IF first >= 0 /\ last > first
        THEN [found |-> TRUE, text |-> SubSeq(jsonText, first + 1, last + 1)]
        ELSE [found |-> FALSE, text |-> ""]

StripFences(raw) ==
    LET t0 == Trim(raw)
        t1 == IF StartsWith(t0, FENCE) THEN StripLeadingFence(t0) ELSE t0
    IN  IF EndsWith(t1, FENCE) THEN StripTrailingFence(t1) ELSE t1

\* lines 61-70: the strict parse has failed; match is the span found
ExtractStory(jsonText, match) ==
    IF match.found
    THEN IF JSONparse(match.text).ok THEN Return(JSONparse(match.text).v)
         ELSE Throw("AI returned invalid JSON (extracted substring failed to parse).")
    ELSE Throw("Unable to parse story JSON from model output. Raw model output preview: "
               \o SliceTo(jsonText, PREVIEW_LENGTH))

\* lines 56-71: strict is the outcome of JSON.parse(jsonText)
StrictOrExtract(jsonText, strict) ==
    IF strict.ok THEN Return(strict.v) ELSE ExtractStory(jsonText, MatchObject(jsonText))

ParseStory(jsonText) == StrictOrExtract(jsonText, JSONparse(jsonText))

NormalizeGenerateAi(raw) == ParseStory(StripFences(raw))

(***************************************************************************)
(* part_002 lines 109-115: the reply is parsed as it is.                   *)
(***************************************************************************)
\* the outcome of JSON.parse as the outcome of a function that may throw
ParsedOrThrown(p) == IF p.ok THEN Return(p.v) ELSE Throw(SyntaxErrorMessage)

NormalizeSequential(raw) ==
    IF Len(raw) = 0
    THEN Throw("Gemini returned no valid JSON content for the story structure.")
    ELSE ParsedOrThrown(JSONparse(raw))

(***************************************************************************)
(* part_002 lines 281-293: a leading ```json line and a trailing ``` are   *)
(* removed, then the text is parsed.                                       *)
(***************************************************************************)
StripFencesParallel(raw) ==
    LET t0 == Trim(raw)
        t1 == IF StartsWith(t0, FENCE \o "json")
              THEN Trim(SubstringFrom(t0, IndexOf(t0, "\n") + 1))
              ELSE t0
    IN  IF EndsWith(t1, FENCE)
        THEN Trim(SubSeq(t1, 1, LastIndexOf(t1, FENCE)))
        ELSE t1

NormalizeParallel(raw) == ParsedOrThrown(JSONparse(StripFencesParallel(raw)))

(***************************************************************************)
(* The handler up to its first collaborator call: the response it returns  *)
(* at once, or the text-generation call it issues.                         *)
(***************************************************************************)
NoResponse == [statusCode |-> 0, contentType |-> "", body |-> ""]

Respond(statusCode, contentType, body) ==
    [statusCode |-> statusCode, contentType |-> contentType, body |-> body]

ErrorBody(message) == JSONstringify(JObj(<<Member("error", JStr(message))>>))

RespondNow(response) == [respond |-> TRUE, response |-> response, prompt |-> "", asked |-> ""]

\* prompt and asked are the user's idea and the page count as the request to the
\* text-generation collaborator words them
CallModel(prompt, asked) ==
    [respond |-> FALSE, response |-> NoResponse, prompt |-> prompt, asked |-> asked]

\* generate-ai.js lines 120-127
CatchGenerateAi(message) ==
    Respond(500, "application/json",
            ErrorBody(IF Len(message) > 0 THEN message ELSE "Server error"))

\* generate-ai.js lines 93-98
ValidateGenerateAi(prompt, pageCount) ==
    IF ~Truthy(prompt) \/ prompt.t # "str" \/ Len(Trim(prompt.s)) = 0
    THEN RespondNow(Respond(400, "", ErrorBody("Missing 'prompt' in request body")))
    ELSE CallModel(prompt.s, JsString(pageCount))

\* generate-ai.js line 90: body.prompt || (body.prompt === 0 ? "0" : null)
PromptGenerateAi(given) ==
    Or(given, IF given.t = "num" /\ given.n = 0 THEN JStr("0") ELSE JNull)

\* generate-ai.js lines 89-98: parsed is the outcome of JSON.parse(event.body || "{}")
BodyGenerateAi(parsed) ==
    IF ~parsed.ok THEN RespondNow(CatchGenerateAi(SyntaxErrorMessage))
    ELSE IF Nullish(parsed.v)
    THEN RespondNow(CatchGenerateAi(TypeErrorMessage(parsed.v, "prompt")))
    ELSE ValidateGenerateAi(
             PromptGenerateAi(Get(parsed.v, "prompt")),
             ParseInt(Or(Get(parsed.v, "pageCount"), JNum(STORY_PAGE_COUNT_DEFAULT))))

\* generate-ai.js lines 74-98
EntryGenerateAi(method, eventBody) ==
    IF method = "GET"
    THEN RespondNow(Respond(200, "application/json", JSONstringify(JObj(<<
             Member("ok", JBool(TRUE)),
             Member("message", JStr("generate-ai function is deployed. POST with { prompt, pageCount } to generate."))>>))))
    ELSE IF method # "POST" THEN RespondNow(Respond(405, "", "Method Not Allowed"))
    ELSE BodyGenerateAi(JSONparse(Or(eventBody, JStr("{}")).s))

\* part_002 lines 45-51
CatchSequential(message) ==
    Respond(500, "", ErrorBody("Failed to generate story components: " \o message))

\* part_002 lines 28-35
ValidateSequential(prompt, pageCount) ==
    IF ~Truthy(prompt) \/ ~Truthy(pageCount)
    THEN RespondNow(Respond(400, "",
             ErrorBody("Missing prompt or pageCount in request body.")))
    ELSE CallModel(JsString(prompt), JsString(pageCount))

\* part_002 lines 26-35: parsed is the outcome of JSON.parse(event.body)
BodySequential(parsed) ==
    IF ~parsed.ok THEN RespondNow(CatchSequential(SyntaxErrorMessage))
    ELSE IF Nullish(parsed.v)
    THEN RespondNow(CatchSequential(TypeErrorMessage(parsed.v, "prompt")))
    ELSE ValidateSequential(Get(parsed.v, "prompt"), Get(parsed.v, "pageCount"))

\* part_002 lines 8-35
EntrySequential(method, eventBody, keySet) ==
    IF method # "POST" THEN RespondNow(Respond(405, "", ErrorBody("Method Not Allowed")))
    ELSE IF ~keySet
    THEN RespondNow(Respond(500, "",
             ErrorBody("Serverless function misconfigured: GEMINI_API_KEY is missing.")))
    ELSE BodySequential(JSONparse(JsString(eventBody)))

\* part_002 lines 403-409
CatchParallel(message) ==
    Respond(500, "", ErrorBody("Story generation failed: " \o message))

\* a validation that does not trim the prompt
ValidateParallelUntrimmed(prompt) ==
    IF prompt.t # "str" \/ Len(prompt.s) = 0
    THEN RespondNow(Respond(400, "", "Missing or empty story prompt."))
    ELSE CallModel(prompt.s, NumToString(STORY_PAGE_COUNT))

\* part_002 lines 387-396
ValidateParallel(prompt) ==
    IF prompt.t # "str" \/ Len(Trim(prompt.s)) = 0
    THEN RespondNow(Respond(400, "", "Missing or empty story prompt."))
    ELSE CallModel(prompt.s, NumToString(STORY_PAGE_COUNT))

\* part_002 lines 386-396: parsed is the outcome of parsing event.body
BodyParallel(parsed) ==
    IF ~parsed.ok THEN RespondNow(CatchParallel(SyntaxErrorMessage))
    ELSE IF Nullish(parsed.v)
    THEN RespondNow(CatchParallel(TypeErrorMessage(parsed.v, "prompt")))
    ELSE ValidateParallel(Or(Get(parsed.v, "prompt"), JStr("")))

\* part_002 lines 380-396
EntryParallel(method, eventBody) ==
    IF method # "POST" THEN RespondNow(Respond(405, "", "Method Not Allowed"))
    ELSE BodyParallel(IF Truthy(eventBody) THEN JSONparse(eventBody.s)
                      ELSE [ok |-> TRUE, v |-> JObj(<<>>)])

\* the TypeError of destructuring { key } out of null; of is the source text of
\* the expression destructured
DestructureErrorMessage(v, key, of) ==
    "Cannot destructure property '" \o key \o "' of '" \o of \o "' as it is "
        \o JsString(v) \o "."

\* part_000 lines 26-32
CatchPart000(message) == Respond(500, "", ErrorBody(message))

\* a handler whose JSON.parse stands before its try block: the SyntaxError
\* leaves the handler and no response is returned
BodyPart000ParseOutsideTry(parsed) ==
    IF ~parsed.ok THEN RespondNow(NoResponse)
    ELSE IF Nullish(parsed.v)
    THEN RespondNow(CatchPart000(DestructureErrorMessage(parsed.v, "prompt", "body")))
    ELSE IF ~Truthy(Get(parsed.v, "prompt"))
    THEN RespondNow(Respond(400, "", ErrorBody("Prompt is required")))
    ELSE CallModel(JsString(Get(parsed.v, "prompt")), "")

\* part_000 lines 5-19: parsed is the outcome of JSON.parse(event.body || "{}")
BodyPart000(parsed) ==
    IF ~parsed.ok THEN RespondNow(CatchPart000(SyntaxErrorMessage))
    ELSE IF Nullish(parsed.v)
    THEN RespondNow(CatchPart000(DestructureErrorMessage(parsed.v, "prompt", "body")))
    ELSE IF ~Truthy(Get(parsed.v, "prompt"))
    THEN RespondNow(Respond(400, "", ErrorBody("Prompt is required")))
    ELSE CallModel(JsString(Get(parsed.v, "prompt")), "")

\* part_000 lines 4-19: the method is not looked at
EntryPart000(eventBody) == BodyPart000(JSONparse(Or(eventBody, JStr("{}")).s))

\* part_001 lines 19-22: res.status(500).json(...)
CatchPart001(message) == Respond(500, "application/json", ErrorBody(message))

\* part_001 lines 5-15: parsed is the outcome of JSON.parse(req.body)
BodyPart001(parsed) ==
    IF ~parsed.ok THEN RespondNow(CatchPart001(SyntaxErrorMessage))
    ELSE IF Nullish(parsed.v)
    THEN RespondNow(CatchPart001(
             DestructureErrorMessage(parsed.v, "prompt", "JSON.parse(...)")))
    ELSE IF ~Truthy(Get(parsed.v, "prompt"))
    THEN RespondNow(Respond(400, "application/json", ErrorBody("Prompt is required")))
    ELSE CallModel(JsString(Get(parsed.v, "prompt")), "")

\* part_001 lines 4-15: JSON.parse turns an absent body into the text undefined
EntryPart001(reqBody) == BodyPart001(JSONparse(JsString(reqBody)))

Entry(v, method, eventBody, keySet) ==
    CASE v = "generate-ai" -> EntryGenerateAi(method, eventBody)
      [] v = "sequential" -> EntrySequential(method, eventBody, keySet)
      [] v = "parallel" -> EntryParallel(method, eventBody)
      [] v = "part_000" -> EntryPart000(eventBody)
      [] v = "part_001" -> EntryPart001(eventBody)

(***************************************************************************)
(* From the parsed story to the response.  The pages of the model's        *)
(* replies are arrays of objects (or absent, or null), their fields        *)
(* strings and numbers.                                                    *)
(***************************************************************************)
\* obj[key] = v: the member is replaced where it stands, or added at the end
SetMember(obj, key, v) ==
    IF \E i \in 1..Len(obj.m) : obj.m[i].k = key
    THEN JObj([i \in 1..Len(obj.m) |->
                  IF obj.m[i].k = key THEN Member(key, v) ELSE obj.m[i]])
    ELSE JObj(Append(obj.m, Member(key, v)))

PercentEncoded(c) ==
    CASE c = " " -> "%20"
      [] c = "\n" -> "%0A"
      [] c = "\"" -> "%22"
      [] c = "{" -> "%7B"
      [] c = "}" -> "%7D"
      [] c = ":" -> "%3A"
      [] c = "," -> "%2C"
      [] c = "/" -> "%2F"
      [] c = BACKTICK -> "%60"
      [] OTHER -> c

RECURSIVE EncodeURIComponent(_)
EncodeURIComponent(s) ==
    LET j == FirstOf(s, 1, {" ", "\n", "\"", "{", "}", ":", ",", "/", BACKTICK})
    IN  IF j > Len(s) THEN s
        ELSE SubSeq(s, 1, j - 1) \o PercentEncoded(CharAt(s, j))
             \o EncodeURIComponent(SubSeq(s, j + 1, Len(s)))

\* generate-ai.js lines 101-107, the page the response carries for page p
PlaceholderPage(p) ==
    LET shown == Or(Or(Get(p, "imagePrompt"), Get(p, "text")), JStr(""))
    IN  JObj(<<Member("page_number", Get(p, "page_number")),
               Member("text", Get(p, "text")),
               Member("imagePrompt",
                      Or(Or(Get(p, "imagePrompt"), Get(p, "image_prompt")), JStr(""))),
               Member("imageUrl",
                      JStr("https://placehold.co/600x400/EEF2FF/0B4C86?text="
                           \o EncodeURIComponent(SliceTo(shown.s, PLACEHOLDER_TEXT_LENGTH)))),
               Member("audioUrl", JNull)>>)

\* generate-ai.js lines 101-118: pages is storyJson.pages || []
BuildPages(storyJson, pages) ==
    IF pages.t # "arr" THEN Throw("(storyJson.pages || []).map is not a function")
    ELSE IF \E i \in 1..Len(pages.a) : Nullish(pages.a[i])
    THEN Throw(TypeErrorMessage(JNull, "page_number"))
    ELSE IF \E i \in 1..Len(pages.a) :
                Or(Or(Get(pages.a[i], "imagePrompt"), Get(pages.a[i], "text")),
                   JStr("")).t # "str"
    THEN Throw("(p.imagePrompt || p.text || '').slice is not a function")
    ELSE Return(JObj(<<Member("story", JObj(<<
             Member("title", Or(Get(storyJson, "title"), JStr("AI Storybook"))),
             Member("pages",
                    JArr([i \in 1..Len(pages.a) |-> PlaceholderPage(pages.a[i])]))>>))>>))

\* generate-ai.js lines 101-118
BuildGenerateAi(storyJson) ==
    IF Nullish(storyJson) THEN Throw(TypeErrorMessage(storyJson, "pages"))
    ELSE BuildPages(storyJson, Or(Get(storyJson, "pages"), JArr(<<>>)))

(***************************************************************************)
(* The per-page sub-steps.  The image collaborator answers with an image   *)
(* ("ok"), with an empty prediction list ("empty"), or fails ("throw");    *)
(* the text-to-speech collaborator answers with audio ("ok"), without any  *)
(* ("noaudio"), or fails ("throw").  The bytes are fixed samples; the WAV  *)
(* container part_002 lines 190-235 builds is not taken apart.             *)
(***************************************************************************)
ImageOutcomes == {"ok", "empty", "throw"}

NarrationOutcomes == {"ok", "noaudio", "throw"}

UpstreamFailure == "collaborator unavailable"

\* part_002 lines 119-144
GenerateIllustrationSequential(outcome) ==
    IF outcome = "ok" THEN Return(JStr("data:image/png;base64,aW1n")) ELSE Return(JNull)

\* part_002 lines 146-177
GenerateNarrationSequential(outcome) ==
    IF outcome = "ok"
    THEN Return(JObj(<<Member("data", JStr("cGNt")),
                       Member("mimeType", JStr("audio/L16;rate=24000"))>>))
    ELSE Return(JObj(<<Member("data", JStr("TTS_FAILED")), Member("mimeType", JStr(""))>>))

\* part_002 lines 299-308
GenerateIllustrationParallel(outcome) ==
    CASE outcome = "ok" -> Return(JStr("data:image/png;base64,aW1n"))
      [] outcome = "empty" -> Throw(TypeErrorMessage(JUndef, "bytesBase64Encoded"))
      [] OTHER -> Throw(UpstreamFailure)

\* part_002 lines 313-347
GenerateNarrationParallel(outcome) ==
    CASE outcome = "ok" -> Return(JStr("data:audio/wav;base64,UklGRg"))
      [] outcome = "noaudio" -> Throw("TTS response missing audio data.")
      [] OTHER -> Throw(UpstreamFailure)

\* a page task: st is "idle" (not begun), "image" or "tts" (that call pending),
\* "done" or "rejected"; image and tts are the collaborators' outcomes
NewTask(st) ==
    [st |-> st, image |-> "none", tts |-> "none", imageUrl |-> JUndef, audio |-> JUndef]

PageList(storyJson) == Get(storyJson, "pages").a

\* part_002 lines 67-78: the story with each page's imageUrl and audioData set
StoryDataSequential(storyJson, ts) ==
    SetMember(storyJson, "pages", JArr([i \in 1..Len(ts) |->
        SetMember(SetMember(PageList(storyJson)[i], "imageUrl", ts[i].imageUrl),
                  "audioData", ts[i].audio)]))

\* the fulfilment values in the order in which they were fulfilled
PromiseAllAsSettled(values, settled) == [i \in 1..Len(values) |-> values[settled[i]]]

\* Promise.all: the fulfilment values in the order of the promises given,
\* whatever the order (settled) in which they were fulfilled
PromiseAll(values, settled) == values

\* part_002 lines 359-376
StoryDataParallel(storyJson, ts, settled) ==
    SetMember(storyJson, "pages", JArr(PromiseAll([i \in 1..Len(ts) |->
        SetMember(SetMember(PageList(storyJson)[i], "imageUrl", ts[i].imageUrl),
                  "audioUrl", ts[i].audio)], settled)))

(***************************************************************************)
(* What the handler does with the text-generation collaborator's answer.   *)
(***************************************************************************)
Catch(v, message) ==
    CASE v = "generate-ai" -> CatchGenerateAi(message)
      [] v = "sequential" -> CatchSequential(message)
      [] v = "parallel" -> CatchParallel(message)
      [] v = "part_000" -> CatchPart000(message)
      [] v = "part_001" -> CatchPart001(message)

\* an error that does not carry the collaborator's message
AskForStoryFailureBare(message) == "Model.generateContent failed"

\* generate-ai.js lines 36-40: the error askForStory throws for a failed call
AskForStoryFailure(message) ==
    "Model.generateContent failed: " \o (IF Len(message) > 0 THEN message ELSE "Error")

\* the error the handler's catch block receives when the collaborator call fails
TextFailure(v, message) ==
    IF v = "generate-ai" THEN AskForStoryFailure(message) ELSE message

Outcome(parsed, storyJson, response, ts) ==
    [parsed |-> parsed, storyJson |-> storyJson, response |-> response, tasks |-> ts]

\* generate-ai.js lines 109-127: b is the outcome of building the payload
RespondGenerateAi(storyJson, b) ==
    IF ~b.ok THEN Outcome(TRUE, storyJson, CatchGenerateAi(b.message), <<>>)
    ELSE Outcome(TRUE, storyJson,
                 Respond(200, "application/json", JSONstringify(b.v)), <<>>)

\* generate-ai.js lines 98-127: n is the outcome of askForStory
StoryGenerateAi(n) ==
    IF ~n.ok THEN Outcome(FALSE, JUndef, CatchGenerateAi(n.message), <<>>)
    ELSE RespondGenerateAi(n.v, BuildGenerateAi(n.v))

ReplyGenerateAi(reply) == StoryGenerateAi(NormalizeGenerateAi(reply))

\* part_002 lines 64-72: the loop begins with the first page's image
PagesSequential(storyJson, pages) ==
    IF Nullish(pages)
    THEN Outcome(TRUE, storyJson, CatchSequential(TypeErrorMessage(pages, "length")), <<>>)
    ELSE IF pages.t # "arr" \/ Len(pages.a) = 0
    THEN Outcome(TRUE, storyJson,
                 Respond(200, "application/json", JSONstringify(storyJson)), <<>>)
    ELSE IF Nullish(pages.a[1])
    THEN Outcome(TRUE, storyJson,
                 CatchSequential(TypeErrorMessage(pages.a[1], "image_prompt")), <<>>)
    ELSE Outcome(TRUE, storyJson, NoResponse,
                 [i \in 1..Len(pages.a) |-> NewTask(IF i = 1 THEN "image" ELSE "idle")])

\* part_002 lines 35-51 and 60-64: n is the outcome of generateStoryStructure
StorySequential(n) ==
    IF ~n.ok THEN Outcome(FALSE, JUndef, CatchSequential(n.message), <<>>)
    ELSE IF Nullish(n.v)
    THEN Outcome(TRUE, n.v, CatchSequential(TypeErrorMessage(n.v, "pages")), <<>>)
    ELSE PagesSequential(n.v, Get(n.v, "pages"))

ReplySequential(reply) == StorySequential(NormalizeSequential(reply))

\* part_002 lines 359-373: every page task begins with its image
PagesParallel(storyJson, pages) ==
    IF Nullish(pages)
    THEN Outcome(TRUE, storyJson, CatchParallel(TypeErrorMessage(pages, "map")), <<>>)
    ELSE IF pages.t # "arr"
    THEN Outcome(TRUE, storyJson,
                 CatchParallel("storyStructure.pages.map is not a function"), <<>>)
    ELSE IF Len(pages.a) = 0
    THEN Outcome(TRUE, storyJson,
                 Respond(200, "application/json",
                         JSONstringify(StoryDataParallel(storyJson, <<>>, <<>>))), <<>>)
    ELSE Outcome(TRUE, storyJson,
                 IF \E i \in 1..Len(pages.a) : Nullish(pages.a[i])
                 THEN CatchParallel(TypeErrorMessage(JNull, "image_prompt"))
                 ELSE NoResponse,
                 [i \in 1..Len(pages.a) |->
                     NewTask(IF Nullish(pages.a[i]) THEN "rejected" ELSE "image")])

\* part_002 lines 396-409 and 352-359: n is the outcome of generateStoryStructure
StoryParallel(n) ==
    IF ~n.ok THEN Outcome(FALSE, JUndef, CatchParallel(n.message), <<>>)
    ELSE IF Nullish(n.v)
    THEN Outcome(TRUE, n.v, CatchParallel(TypeErrorMessage(n.v, "pages")), <<>>)
    ELSE PagesParallel(n.v, Get(n.v, "pages"))

ReplyParallel(reply) == StoryParallel(NormalizeParallel(reply))

\* the body { story: text } of the handlers that pass the reply on as it is
StoryAsText(reply) == JSONstringify(JObj(<<Member("story", JStr(reply))>>))

\* part_000 lines 19-25: the reply is not parsed
ReplyPart000(reply) == Outcome(FALSE, JUndef, Respond(200, "", StoryAsText(reply)), <<>>)

\* part_001 lines 15-18
ReplyPart001(reply) ==
    Outcome(FALSE, JUndef, Respond(200, "application/json", StoryAsText(reply)), <<>>)

Reply(v, reply) ==
    CASE v = "generate-ai" -> ReplyGenerateAi(reply)
      [] v = "sequential" -> ReplySequential(reply)
      [] v = "parallel" -> ReplyParallel(reply)
      [] v = "part_000" -> ReplyPart000(reply)
      [] v = "part_001" -> ReplyPart001(reply)

GenerateIllustration(v, outcome) ==
    IF v = "sequential" THEN GenerateIllustrationSequential(outcome)
    ELSE GenerateIllustrationParallel(outcome)

GenerateNarration(v, outcome) ==
    IF v = "sequential" THEN GenerateNarrationSequential(outcome)
    ELSE GenerateNarrationParallel(outcome)

StoryData(v, storyJson, ts, settled) ==
    IF v = "sequential" THEN StoryDataSequential(storyJson, ts)
    ELSE StoryDataParallel(storyJson, ts, settled)

Count(ts, st) == Cardinality({i \in 1..Len(ts) : ts[i].st = st})

(***************************************************************************)
(* The inputs of the model.                                                *)
(***************************************************************************)
\* the most pages a reply of the collaborator holds
MaxPages == 2

\* the largest pageCount a request asks for
MaxPageCount == 2

Versions == {"generate-ai", "sequential", "parallel"}

Methods == {"POST", "GET", "PUT"}

PromptFields ==
    {"", "\"prompt\":\"a dragon\"", "\"prompt\":\"  \"", "\"prompt\":\"\"",
     "\"prompt\":0", "\"prompt\":5"}

PageCountFields ==
    {"", "\"pageCount\":\"2\""}
    \cup {"\"pageCount\":" \o NumToString(n) : n \in 0..MaxPageCount}

ObjectBody(p, c) == "{" \o p \o (IF Len(p) > 0 /\ Len(c) > 0 THEN "," ELSE "") \o c \o "}"

\* event.body: absent, or a text that is empty, not JSON, null, or an object
Bodies ==
    {JUndef} \cup {JStr(t) : t \in {"", "{oops", "null"}}
    \cup {JStr(ObjectBody(p, c)) : p \in PromptFields, c \in PageCountFields}

PageDraft(n) ==
    JObj(<<Member("page_number", JNum(n)),
           Member("text", JStr("text " \o NumToString(n))),
           Member("image_prompt", JStr("picture " \o NumToString(n)))>>)

Story(n) ==
    JObj(<<Member("title", JStr("A Tale")),
           Member("pages", JArr([i \in 1..n |-> PageDraft(i)]))>>)

\* a story whose pages count down: page_number n first, 1 last
Countdown(n) ==
    JObj(<<Member("title", JStr("A Tale")),
           Member("pages", JArr([i \in 1..n |-> PageDraft(n + 1 - i)]))>>)

StoryTexts ==
    {JSONstringify(Story(n)) : n \in 0..MaxPages} \cup {JSONstringify(Countdown(MaxPages))}

\* the replies of the text-generation collaborator: stories, bare, fenced or
\* inside prose, and texts that hold no story
Replies ==
    StoryTexts
    \cup {FENCE \o "json\n" \o JSONstringify(Story(1)) \o "\n" \o FENCE,
          FENCE \o "\n" \o JSONstringify(Story(1)) \o "\n" \o FENCE,
          "Here is your story: " \o JSONstringify(Story(1)) \o " Enjoy!",
          "", "Sorry, I cannot help.", "{oops}", "null", "{\"title\":\"A Tale\"}"}

\* the messages of the errors a failing text-generation call throws
UpstreamMessages == {"quota exceeded", ""}

request == <<version, apiKeySet, httpMethod, requestBody>>
aside == <<sample, normalized>>

vars ==
    <<version, apiKeySet, httpMethod, requestBody, pc, returned, accepted, sentPrompt, sentPageCount,
      calls, textOutcome, textError, modelReply, storyParsed, parsedStory, tasks, fulfilled,
      sample, normalized>>

\* nothing normalized yet
NotNormalized == [whole |-> <<>>, core |-> <<>>]

\* the handler has not run
Idle ==
    /\ pc = "start"
    /\ returned = NoResponse
    /\ accepted = FALSE
    /\ sentPrompt = ""
    /\ sentPageCount = ""
    /\ calls = [text |-> 0, image |-> 0, tts |-> 0]
    /\ textOutcome = "none"
    /\ textError = ""
    /\ modelReply = ""
    /\ storyParsed = FALSE
    /\ parsedStory = JUndef
    /\ tasks = <<>>
    /\ fulfilled = <<>>

\* only the sequential handler looks at the key (part_002 line 18)
Init ==
    /\ version \in Versions
    /\ apiKeySet \in (IF version = "sequential" THEN BOOLEAN ELSE {TRUE})
    /\ httpMethod \in Methods
    /\ requestBody \in Bodies
    /\ Idle
    /\ sample = [prefix |-> "", core |-> "", suffix |-> ""]
    /\ normalized = NotNormalized

\* the handler's first step decided d: a response at once, or the model call
Decide(d) ==
    IF d.respond
    THEN /\ pc' = "done"
         /\ returned' = d.response
         /\ UNCHANGED <<accepted, sentPrompt, sentPageCount, calls>>
    ELSE /\ pc' = "text"
         /\ accepted' = TRUE
         /\ sentPrompt' = d.prompt
         /\ sentPageCount' = d.asked
         /\ calls' = [calls EXCEPT !.text = @ + 1]
         /\ UNCHANGED returned

\* the handler runs up to its first await, or to its return
Invoke ==
    /\ pc = "start"
    /\ Decide(Entry(version, httpMethod, requestBody, apiKeySet))
    /\ UNCHANGED <<request, aside, textOutcome, textError, modelReply, storyParsed, parsedStory,
                   tasks, fulfilled>>

\* the text-generation call fails with an error of message m
TextGenerationThrows(m) ==
    /\ pc = "text"
    /\ pc' = "done"
    /\ textOutcome' = "threw"
    /\ textError' = m
    /\ returned' = Catch(version, TextFailure(version, m))
    /\ UNCHANGED <<request, aside, accepted, sentPrompt, sentPageCount, calls, modelReply, storyParsed, parsedStory,
                   tasks, fulfilled>>

\* the handler went on to a: its response, or the page tasks it began
Continue(a) ==
    /\ pc' = IF a.response = NoResponse THEN "assets" ELSE "done"
    /\ returned' = a.response
    /\ storyParsed' = a.parsed
    /\ parsedStory' = a.storyJson
    /\ tasks' = a.tasks
    /\ calls' = [calls EXCEPT !.image = Count(a.tasks, "image")]

\* the text-generation call returns the text reply
TextGenerationReplies(reply) ==
    /\ pc = "text"
    /\ Continue(Reply(version, reply))
    /\ textOutcome' = "replied"
    /\ modelReply' = reply
    /\ UNCHANGED <<request, aside, accepted, sentPrompt, sentPageCount, textError, fulfilled>>

\* the image call of page i settles with outcome o
ImageSettles(i, o) ==
    /\ i \in 1..Len(tasks)
    /\ tasks[i].st = "image"
    /\ LET r == GenerateIllustration(version, o)
       IN  IF r.ok
           THEN /\ tasks' = [tasks EXCEPT ![i].st = "tts", ![i].image = o,
                                          ![i].imageUrl = r.v]
                /\ calls' = [calls EXCEPT !.tts = @ + 1]
                /\ UNCHANGED <<pc, returned>>
           ELSE /\ tasks' = [tasks EXCEPT ![i].st = "rejected", ![i].image = o]
                /\ pc' = "done"
                /\ returned' = IF pc = "assets" THEN Catch(version, r.message)
                               ELSE returned
                /\ UNCHANGED calls
    /\ UNCHANGED <<request, aside, accepted, sentPrompt, sentPageCount, textOutcome, textError, modelReply, storyParsed,
                   parsedStory, fulfilled>>

\* the narration call of page i settles with outcome o
NarrationSettles(i, o) ==
    /\ i \in 1..Len(tasks)
    /\ tasks[i].st = "tts"
    /\ LET r == GenerateNarration(version, o)
           done == [tasks EXCEPT ![i].st = "done", ![i].tts = o, ![i].audio = r.v]
           order == Append(fulfilled, i)
           last == IF version = "sequential" THEN i = Len(tasks)
                   ELSE Count(done, "done") = Len(tasks)
           next == PageList(parsedStory)[i + 1]
       IN  IF ~r.ok
           THEN /\ tasks' = [tasks EXCEPT ![i].st = "rejected", ![i].tts = o]
                /\ pc' = "done"
                /\ returned' = IF pc = "assets" THEN Catch(version, r.message)
                               ELSE returned
                /\ UNCHANGED <<calls, fulfilled>>
           ELSE IF last /\ pc = "assets"
           THEN /\ tasks' = done
                /\ fulfilled' = order
                /\ pc' = "done"
                /\ returned' = Respond(200, "application/json",
                                   JSONstringify(StoryData(version, parsedStory, done, order)))
                /\ UNCHANGED calls
           ELSE IF version = "sequential" /\ pc = "assets" /\ Nullish(next)
           THEN /\ tasks' = done
                /\ fulfilled' = order
                /\ pc' = "done"
                /\ returned' = Catch(version, TypeErrorMessage(next, "image_prompt"))
                /\ UNCHANGED calls
           ELSE IF version = "sequential" /\ pc = "assets"
           THEN /\ tasks' = [done EXCEPT ![i + 1].st = "image"]
                /\ fulfilled' = order
                /\ calls' = [calls EXCEPT !.image = @ + 1]
                /\ UNCHANGED <<pc, returned>>
           ELSE /\ tasks' = done
                /\ fulfilled' = order
                /\ UNCHANGED <<pc, returned, calls>>
    /\ UNCHANGED <<request, aside, accepted, sentPrompt, sentPageCount, textOutcome, textError, modelReply, storyParsed,
                   parsedStory>>

Next ==
    \/ Invoke
    \/ \E m \in UpstreamMessages : TextGenerationThrows(m)
    \/ \E reply \in Replies : TextGenerationReplies(reply)
    \/ \E i \in 1..MaxPages, o \in ImageOutcomes : ImageSettles(i, o)
    \/ \E i \in 1..MaxPages, o \in NarrationOutcomes : NarrationSettles(i, o)

Spec == Init /\ [][Next]_vars

\* the handlers of the repository: the three above and the two first drafts
\* (part_000, part_001), which pass the collaborator's text on unparsed
Handlers == Versions \cup {"part_000", "part_001"}

InitHandlers ==
    /\ version \in Handlers
    /\ apiKeySet \in (IF version = "sequential" THEN BOOLEAN ELSE {TRUE})
    /\ httpMethod \in Methods
    /\ requestBody \in Bodies
    /\ Idle
    /\ sample = [prefix |-> "", core |-> "", suffix |-> ""]
    /\ normalized = NotNormalized

(***************************************************************************)
(* Progress.  The fairness conditions are stated on what the actions do to *)
(* pc and to tasks: each footprint below is enabled exactly when its       *)
(* action is, and is taken exactly by the steps of its action.             *)
(***************************************************************************)
\* Invoke: the runtime runs the handler up to its first await or its return
HandlerRuns == pc = "start" /\ pc' \in {"text", "done"}

\* TextGenerationThrows, TextGenerationReplies: the awaited text call settles
TextCallSettles == pc = "text" /\ pc' \in {"assets", "done"}

\* what ImageSettles(i, o) makes of tasks
ImageSettled(i, o) ==
    IF GenerateIllustration(version, o).ok
    THEN [tasks EXCEPT ![i].st = "tts", ![i].image = o,
                       ![i].imageUrl = GenerateIllustration(version, o).v]
    ELSE [tasks EXCEPT ![i].st = "rejected", ![i].image = o]

\* what NarrationSettles(i, o) makes of tasks: in the sequential handler the
\* loop goes on to the image call of the next page
NarrationSettled(i, o) ==
    IF ~GenerateNarration(version, o).ok
    THEN [tasks EXCEPT ![i].st = "rejected", ![i].tts = o]
    ELSE IF version = "sequential" /\ pc = "assets" /\ i < Len(tasks)
            /\ ~Nullish(PageList(parsedStory)[i + 1])
    THEN [tasks EXCEPT ![i].st = "done", ![i].tts = o,
                       ![i].audio = GenerateNarration(version, o).v,
                       ![i + 1].st = "image"]
    ELSE [tasks EXCEPT ![i].st = "done", ![i].tts = o,
                       ![i].audio = GenerateNarration(version, o).v]

\* the image call of page i settles
ImageCallSettles(i) ==
    /\ i \in 1..Len(tasks)
    /\ tasks[i].st = "image"
    /\ \E o \in ImageOutcomes : tasks' = ImageSettled(i, o)

\* the narration call of page i settles
NarrationCallSettles(i) ==
    /\ i \in 1..Len(tasks)
    /\ tasks[i].st = "tts"
    /\ \E o \in NarrationOutcomes : tasks' = NarrationSettled(i, o)

\* the runtime runs the invoked handler, and every collaborator call issued
\* resolves or rejects
Settling ==
    /\ WF_pc(HandlerRuns)
    /\ WF_pc(TextCallSettles)
    /\ \A i \in 1..MaxPages : WF_tasks(ImageCallSettles(i)) /\ WF_tasks(NarrationCallSettles(i))

SpecSettling == InitHandlers /\ [][Next]_vars /\ Settling

(***************************************************************************)
(* Properties of the handler, read off the state.                          *)
(***************************************************************************)
Responded == returned.statusCode # 0

\* the returned body as a JSON value, undefined when it is not JSON
ResponseValue == JSONparse(returned.body).v

\* the story a 200 response carries
ResponseStory ==
    IF version = "generate-ai" THEN Get(ResponseValue, "story") ELSE ResponseValue

\* the pages of a story, none when it has no page list
PagesOf(story) == IF Get(story, "pages").t = "arr" THEN Get(story, "pages").a ELSE <<>>

\* the pages of the response
ResponsePages == PagesOf(ResponseStory)

\* the pages of the normalized reply
StoryPages == PagesOf(parsedStory)

Contains(s, p) == IndexOf(s, p) >= 0

ImageFailed(i) == tasks[i].image \in {"empty", "throw"}

NarrationFailed(i) == tasks[i].tts \in {"noaudio", "throw"}

\* the asset field of page i of the response is absent: null, or the failure sentinel
AssetAbsent(i, key) ==
    \/ Nullish(Get(ResponsePages[i], key))
    \/ Get(Get(ResponsePages[i], key), "data") = JStr("TTS_FAILED")

\* C1: a failure of an asset sub-step (illustration or narration: the collaborator
\* throws or returns no data) never makes the response a 500: once a story was
\* parsed, the request ends 200 and the failed asset is null or the sentinel.
C1_AssetFailureAbsorbed ==
    (storyParsed /\ Responded /\ \E i \in 1..Len(tasks) : ImageFailed(i) \/ NarrationFailed(i))
        => /\ returned.statusCode = 200
           /\ \A i \in 1..Len(tasks) :
                 /\ ImageFailed(i) => AssetAbsent(i, "imageUrl")
                 /\ NarrationFailed(i) =>
                        AssetAbsent(i, IF version = "sequential" THEN "audioData" ELSE "audioUrl")

\* the request as the specification reads it (generate-ai.js and the parallel
\* handler take an absent or empty body for an empty object)
BodyRead ==
    IF requestBody.t = "undef" \/ requestBody = JStr("") THEN [ok |-> TRUE, v |-> JObj(<<>>)]
    ELSE JSONparse(requestBody.s)

WrongMethod == httpMethod # "POST"

\* the body is a JSON value that can be asked for its prompt
BodyReadable == BodyRead.ok /\ BodyRead.v.t # "null"

PromptGiven == Get(BodyRead.v, "prompt")

\* missing, not a string, or empty after trimming
BadPrompt == BodyReadable /\ (PromptGiven.t # "str" \/ Trim(PromptGiven.s) = "")

NoCollaboratorCalled == calls = [text |-> 0, image |-> 0, tts |-> 0]

C3_UnparseableReplyPreviewed ==
    (version = "generate-ai" /\ textOutcome = "replied" /\ ~storyParsed)
        => /\ returned.statusCode = 500
           /\ Get(ResponseValue, "error").t = "str"
           /\ Contains(Get(ResponseValue, "error").s,
                       SliceTo(StripFences(modelReply), PREVIEW_LENGTH))
           /\ Get(ResponseValue, "story").t = "undef"

\* C4: when the illustration of exactly one page k fails and that of every other
\* page succeeds, the response is a story with all the pages, page k with a null
\* imageUrl, every other page with its image and its narration.
C4_OnePageWithoutImage ==
    \A k \in 1..Len(tasks) :
        ( /\ Responded
          /\ ImageFailed(k)
          /\ \A j \in 1..Len(tasks) : j # k => tasks[j].image = "ok"
          /\ \A j \in 1..Len(tasks) : ~NarrationFailed(j) )
        => /\ returned.statusCode = 200
           /\ Len(ResponsePages) = Len(StoryPages)
           /\ Nullish(Get(ResponsePages[k], "imageUrl"))
           /\ \A j \in 1..Len(tasks) : j # k => Get(ResponsePages[j], "imageUrl").t = "str"
           /\ \A j \in 1..Len(tasks) :
                 ~AssetAbsent(j, IF version = "sequential" THEN "audioData" ELSE "audioUrl")

\* C7: for every accepted request the text-generation collaborator is called exactly
\* once whatever comes of it; when the call throws there is no retry and no asset
\* call, and the response is a 500 whose error carries the collaborator's message.
C7_OneTextCall ==
    accepted
        => /\ calls.text = 1
           /\ textOutcome = "threw" =>
                 /\ calls.image = 0
                 /\ calls.tts = 0
                 /\ returned.statusCode = 500
                 /\ Get(ResponseValue, "error").t = "str"
                 /\ Contains(Get(ResponseValue, "error").s, textError)

\* C7 witness: the text-generation call threw and the handler answered 500
C7_TextCallThrew ==
    /\ accepted
    /\ textOutcome = "threw"
    /\ textError = "quota exceeded"
    /\ returned.statusCode = 500
    /\ calls.text = 1

\* C8: every failure response (400, 405 or 500) has a body that is a JSON object
\* with a string-valued error field.
C8_FailureBodyIsJsonError ==
    returned.statusCode \in {400, 405, 500}
        => /\ JSONparse(returned.body).ok
           /\ ResponseValue.t = "obj"
           /\ Get(ResponseValue, "error").t = "str"

PageCountGiven == Get(BodyRead.v, "pageCount")

\* C9: pageCount is optional: a POST with a valid prompt is accepted; without a
\* pageCount the text-generation collaborator is asked for 3 pages, and with an
\* integer pageCount n >= 1 for exactly n pages.
C9_PageCountAsked ==
    ( /\ pc # "start"
      /\ apiKeySet
      /\ ~WrongMethod
      /\ BodyReadable
      /\ ~BadPrompt
      /\ PageCountGiven.t = "undef" \/ (PageCountGiven.t = "num" /\ PageCountGiven.n >= 1) )
        => /\ accepted
           /\ sentPageCount = (IF PageCountGiven.t = "undef" THEN "3"
                               ELSE NumToString(PageCountGiven.n))

\* the pages rp are the pages sp: as many, in the same order
SamePages(rp, sp) ==
    /\ Len(rp) = Len(sp)
    /\ \A i \in 1..Len(sp) :
          /\ Get(rp[i], "page_number") = Get(sp[i], "page_number")
          /\ Get(rp[i], "text") = Get(sp[i], "text")

\* C10: in every 200 response that carries a story, the pages are those of the
\* normalized reply, as many and in the same order, whatever pageCount the request
\* gave and in whatever order the page tasks finished.
C10_PagesAsNormalized ==
    (accepted /\ returned.statusCode = 200) => SamePages(ResponsePages, StoryPages)

\* C10 witness: a 200 story of two pages whose second page finished first
C10_FinishedOutOfOrder ==
    /\ version = "parallel"
    /\ returned.statusCode = 200
    /\ fulfilled = <<2, 1>>
    /\ Len(ResponsePages) = 2

\* an illustration or narration call of page i was issued and has not settled
Pending(i) == tasks[i].st \in {"image", "tts"}

\* both sub-steps of page i have resolved
BothResolved(i) == tasks[i].image # "none" /\ tasks[i].tts # "none"

\* C11: once page sub-steps were issued, no response (of any status) is
\* returned while an issued illustration or narration sub-step is still
\* pending, and every page merged into a 200 result has both sub-steps resolved
C11_NoResponseWhilePending ==
    Responded =>
        /\ \A i \in 1..Len(tasks) : ~Pending(i)
        /\ returned.statusCode = 200 => \A i \in 1..Len(tasks) : BothResolved(i)

Statuses == {200, 400, 405, 500}

\* C12: when every collaborator call settles, every invocation, whatever the
\* method, the body (a body that is not JSON included) and the collaborators'
\* outcomes, comes to return a response; a response returned has status 200,
\* 400, 405 or 500 and is never followed by another one; the handler never
\* ends without a response (no exception leaves it)
C12_OneResponseAtLast ==
    /\ <>Responded
    /\ [](pc = "done" => returned.statusCode \in Statuses)
    /\ [][Responded => returned' = returned]_vars

\* C12 witness: the first draft answered 500 to a body that is not JSON
C12_NotJsonAnswered ==
    /\ version = "part_000"
    /\ requestBody = JStr("{oops")
    /\ pc = "done"
    /\ returned.statusCode = 500

(***************************************************************************)
(* The Normalizer on its own: a reply made of a JSON object and the text   *)
(* put around it, normalized as a whole and as the object alone.           *)
(***************************************************************************)
Cores == {JSONstringify(Story(n)) : n \in 0..MaxPages}

Prefixes ==
    {"", " ", FENCE \o "\n", FENCE \o "json\n", FENCE \o "js\n", FENCE \o "json",
     "Here is your story:\n", "Use {name} as the hero: ", "[", FENCE \o "["}

Suffixes ==
    {"", "\n", "\n" \o FENCE, FENCE, " The end.", " {fin}", "]", "]" \o FENCE}

SampleText == sample.prefix \o sample.core \o sample.suffix

\* the Normalizer of version v
Normalize(v, raw) ==
    IF v = "generate-ai" THEN NormalizeGenerateAi(raw)
    ELSE IF v = "sequential" THEN NormalizeSequential(raw)
    ELSE NormalizeParallel(raw)

InitNormalize ==
    /\ version \in Versions
    /\ apiKeySet = TRUE
    /\ httpMethod = "POST"
    /\ requestBody = JUndef
    /\ Idle
    /\ sample \in [prefix : Prefixes, core : Cores, suffix : Suffixes]
    /\ normalized = NotNormalized

\* the whole sample goes through the Normalizer
NormalizeWhole ==
    /\ normalized.whole = <<>>
    /\ normalized' = [normalized EXCEPT !.whole = Normalize(version, SampleText)]
    /\ UNCHANGED <<request, pc, returned, accepted, sentPrompt, sentPageCount, calls, textOutcome,
                   textError, modelReply, storyParsed, parsedStory, tasks, fulfilled, sample>>

\* the object alone goes through the Normalizer
NormalizeCore ==
    /\ normalized.core = <<>>
    /\ normalized' = [normalized EXCEPT !.core = Normalize(version, sample.core)]
    /\ UNCHANGED <<request, pc, returned, accepted, sentPrompt, sentPageCount, calls, textOutcome,
                   textError, modelReply, storyParsed, parsedStory, tasks, fulfilled, sample>>

NextNormalize ==
    \/ NormalizeWhole
    \/ NormalizeCore

SpecNormalize == InitNormalize /\ [][NextNormalize]_vars

\* the sample is a JSON object inside one pair of code fences, with or without a
\* language tag
FenceOpenings == {FENCE \o "\n", FENCE \o "json\n", FENCE \o "js\n", FENCE \o "json"}

FenceClosings == {"\n" \o FENCE, FENCE}

Fenced == sample.prefix \in FenceOpenings /\ sample.suffix \in FenceClosings

BothNormalized == normalized.whole # <<>> /\ normalized.core # <<>>

\* C5: in generate-ai.js and the parallel handler, a reply that is valid JSON inside
\* a single pair of code fences, with or without a language tag, normalizes to the
\* same story as the same JSON without the fences.
C5_FencedAsUnwrapped ==
    (version \in {"generate-ai", "parallel"} /\ Fenced /\ BothNormalized)
        => normalized.core.ok /\ normalized.whole = normalized.core

\* the object of the sample has text before it, after it or both
Surrounded == sample.prefix # "" \/ sample.suffix # ""

\* the sample, its code fences stripped, is not valid JSON as a whole
NotJsonAsAWhole == ~JSONparse(StripFences(SampleText)).ok

\* C6 as stated: in generate-ai.js, from a reply that is a valid JSON object with any
\* non-JSON text before or after it, braces in that text included, normalization
\* extracts the object and returns it.
C6_ObjectExtracted ==
    (version = "generate-ai" /\ normalized.whole # <<>> /\ Surrounded /\ NotJsonAsAWhole)
        => normalized.whole = Return(JSONparse(sample.core).v)

\* C6, amended: in generate-ai.js, from a reply that is not valid JSON as a whole once
\* its code fences are stripped, and that is a valid JSON object with text before or
\* after it in which no { comes before the object and no } after it, normalization
\* extracts the object and returns it.
C6_ObjectExtractedWithoutBraces ==
    ( /\ version = "generate-ai"
      /\ normalized.whole # <<>>
      /\ Surrounded
      /\ NotJsonAsAWhole
      /\ ~Contains(sample.prefix, "{")
      /\ ~Contains(sample.suffix, "}") )
        => normalized.whole = Return(JSONparse(sample.core).v)

\* C6 witness: an object with pages was taken out of the prose around it
C6_TakenOutOfProse ==
    /\ version = "generate-ai"
    /\ sample.prefix = "Here is your story:\n"
    /\ sample.suffix = " The end."
    /\ normalized.whole # <<>>
    /\ normalized.whole.ok
    /\ Get(normalized.whole.v, "pages").t = "arr"
    /\ Len(Get(normalized.whole.v, "pages").a) > 0

====
